---------------------------- MODULE Spec2Model ----------------------------
(***************************************************************************)
(* PPM encoder / decoder / bridge sketches of MDEPhygital.                 *)
(*                                                                         *)
(*   src/unnamed/part_000                       serial -> PPM encoder      *)
(*   src/headtracker_to_arduino/...ino           PPM decoder               *)
(*   src/merged_code/merged_code.ino             bridge (decoder+encoder)  *)
(*                                                                         *)
(* Interrupt handlers are single actions (an AVR handler runs with the     *)
(* global interrupt flag cleared); loop() is cut at every point where an   *)
(* interrupt can be taken.  Times are in microseconds, OCR1A in timer      *)
(* ticks of 0.5 us.  16-bit registers and variables wrap modulo 2^16.      *)
(***************************************************************************)
EXTENDS Integers, Sequences, FiniteSets, TLC

VARIABLES
  variant,        \* which sketch runs: "encoder" (part_000), "bridge" (merged_code), "decoder" (headtracker_to_arduino)
  ch,             \* volatile uint16_t ch[CHANNELS]            (channel store)
  pulse,          \* ISR static bool pulse
  chan,           \* ISR static uint8_t chan
  rest,           \* ISR static uint16_t rest
  OCR1A,          \* timer 1 compare register (ticks)
  pin,            \* level of the PPM output pin D9
  isrChannels,    \* volatile uint16_t isrChannels[MAX_CHANNELS]
  isrCount,       \* volatile uint8_t isrCount
  frameStarted,   \* volatile bool frameStarted
  frameChannels,  \* volatile uint16_t frameChannels[MAX_CHANNELS]
  frameCount,     \* volatile uint8_t frameCount
  frameReady,     \* volatile bool frameReady
  sregI,          \* global interrupt enable flag (SREG.I)
  lpc,            \* position of loop()
  tmp,            \* loop local: uint16_t tmp[]
  n,              \* loop local: uint8_t n
  wi,             \* loop local: index i of the copy loops
  pcVals,         \* bridge: uint16_t pcVals[6]
  buf,            \* bridge loop local: uint16_t buf[MAX_CHANNELS]
  count,          \* bridge loop local: uint8_t count
  ready,          \* bridge loop local: bool ready
  hasFrame,       \* decoder loop local: bool hasFrame
  chA,            \* decoder loop local: uint16_t chA
  chB,            \* decoder loop local: uint16_t chB
  filtCh7,        \* bridge: uint16_t filtCh7
  filtCh8,        \* bridge: uint16_t filtCh8
  demoV,          \* encoder loop static int v
  demoDir,        \* encoder loop static int dir
  ack,            \* last line printed on the serial port by the command handler
  hist            \* history record (observations only; never read by the program)

storeVars == <<ch>>
encVars   == <<pulse, chan, rest, OCR1A, pin>>
decVars   == <<isrChannels, isrCount, frameStarted, frameChannels, frameCount, frameReady>>
loopVars  == <<sregI, lpc, tmp, n, wi, pcVals, buf, count, ready, hasFrame, chA, chB,
               filtCh7, filtCh8, demoV, demoDir, ack>>
vars      == <<variant, ch, pulse, chan, rest, OCR1A, pin, isrChannels, isrCount,
               frameStarted, frameChannels, frameCount, frameReady, sregI, lpc, tmp, n,
               wi, pcVals, buf, count, ready, hasFrame, chA, chB, filtCh7, filtCh8,
               demoV, demoDir, ack, hist>>

-----------------------------------------------------------------------------
(* Program constants *)

CHANNELS     == 8
FRAME_LEN    == 22500
PULSE_LEN    == 400
MAX_CHANNELS == 16
SYNC_MIN_US  == 3000
CH_MIN_US    == 900
CH_MAX_US    == 2100
SMOOTH_SHIFT == 3
PC_CHANNELS  == 6
OCR1A_INIT   == 1000
NEUTRAL      == 1500

U16 == 65536

HIGH == "HIGH"
LOW  == "LOW"


-----------------------------------------------------------------------------
(* Bounds of the model *)

MaxTok       == 3    \* longest command line, in comma separated fields (SpecCmd)
MaxCmds      == 1    \* command lines handled in an interrupt-level run
MaxDemoSteps == 1    \* demo animation steps in an interrupt-level run
MaxEdges     == 10   \* input edges in an interrupt-level run of the bridge
MaxTakeEdges == 14   \* input edges in a run of SpecTake
MaxPubs      == 2    \* published frames counted in SpecLoopback
MaxRun       == 40   \* counted updates of the filter with the raw input held
VarSlots     == 2    \* leading pulse positions whose interval varies in SpecDec

-----------------------------------------------------------------------------
(* Helpers shared by the sketches *)

Min(a, b) == IF a < b THEN a ELSE b

RECURSIVE SumTo(_, _)
SumTo(f, k) == IF k = 0 THEN 0 ELSE f[k - 1] + SumTo(f, k - 1)

Clamp_lower_only(v) == IF v < 1000 THEN 1000 ELSE v

\* if (v < 1000) v = 1000; if (v > 2000) v = 2000;
Clamp(v) == IF v < 1000 THEN 1000 ELSE IF v > 2000 THEN 2000 ELSE v

clampU16_no_upper(v, lo, hi) == IF v < lo THEN lo ELSE v

\* inline uint16_t clampU16(uint16_t v, uint16_t lo, uint16_t hi)
clampU16(v, lo, hi) == IF v < lo THEN lo ELSE IF v > hi THEN hi ELSE v

InitStore == [i \in 0 .. CHANNELS - 1 |-> NEUTRAL]

ZeroArray == [i \in 0 .. MAX_CHANNELS - 1 |-> 0]

-----------------------------------------------------------------------------
(* Encoder: ISR(TIMER1_COMPA_vect)                                           *)

\* OCR1A = PULSE_LEN * 2
PulseTicks == (PULSE_LEN * 2) % U16

GapTicks_whole_value(v) == (v * 2) % U16

\* OCR1A = (v - PULSE_LEN) * 2, v already clamped (unsigned 16-bit arithmetic)
GapTicks(v) == ((v - PULSE_LEN) * 2) % U16

\* OCR1A = rest * 2
SyncTicks(r) == (r * 2) % U16

\* uint32_t sum of the clamped store (at most CHANNELS * 2000: it never wraps)
ClampedSumFor(c, nch) == SumTo([i \in 0 .. nch - 1 |-> Clamp(c[i])], nch)

ClampedSum(c) == ClampedSumFor(c, CHANNELS)

\* rest = FRAME_LEN - CHANNELS * PULSE_LEN - sum;  the uint32 difference is stored in
\* a uint16, which keeps it modulo 2^16 (2^16 divides 2^32)
\* if ((int32_t)rest < 1000) rest = 1000;
\* (nch is the sketch's CHANNELS; SpecFloor builds it with other channel counts)
SyncGapFor(c, nch) ==
  LET head == (FRAME_LEN - ((nch * PULSE_LEN) % U16)) % U16
      r    == (head - ClampedSumFor(c, nch)) % U16
  IN  IF r < 1000 THEN 1000 ELSE r

SyncGap(c) == SyncGapFor(c, CHANNELS)

LastChannelDone_one_early == chan >= CHANNELS - 1

\* if (chan >= CHANNELS)
LastChannelDone == chan >= CHANNELS

RecomputesRest_every_pulse == TRUE

\* if (chan == 0) { ... rest = ...; }
RecomputesRest == chan = 0

\* The frame a firing starts: it ends a gap with chan = 0.
StartsFrame == ~pulse /\ chan = 0

\* History kept by a firing: the segment that just ended (level of the pin, length
\* of the programmed interval in us) is appended to the running frame; the firing
\* that starts a frame closes the previous one.
SegmentEnded == [lvl |-> pin, us |-> OCR1A \div 2]

\* A bulk update of the store is between two of its element writes
BetweenWrites ==
  \/ lpc = "write" /\ 0 < wi /\ wi < (IF variant = "encoder" THEN n ELSE PC_CHANNELS)
  \/ lpc \in {"dw5", "w8"}

\* In SpecGap the history is the store as it was at the firing that started the
\* frame, the number of firings since, and for the frame before: its store at the
\* start, the sync gap it ended with and whether the store was written during it.
\* In SpecLoopback the history is the wire between the two handlers: the time
\* since the output's last falling edge and, when this firing pulls the line low,
\* the interval the edge handler is about to measure.
TimerHist ==
  IF hist.mode = "loop"
    THEN LET t == hist.sinceFall + SegmentEnded.us
         IN  IF ~pulse
               THEN [hist EXCEPT !.edgeDt = t, !.sinceFall = 0]
               ELSE [hist EXCEPT !.sinceFall = t]
  ELSE IF hist.mode = "gap"
    THEN IF StartsFrame
           THEN [hist EXCEPT !.started   = TRUE,
                             !.done      = hist.started,
                             !.chAtStart = ch,
                             !.lastCh    = hist.chAtStart,
                             !.lastGap   = SegmentEnded.us,
                             !.lastClean = hist.started /\ hist.clean,
                             !.clean     = TRUE,
                             !.fired     = 1,
                             !.lastFired = hist.fired]
           ELSE [hist EXCEPT !.fired = IF hist.started THEN @ + 1 ELSE @]
    ELSE
    LET h1 == [hist EXCEPT !.isrTorn     = @ \/ BetweenWrites,
                                !.isrAfterUpd = @ \/ hist.updDone]
         IN  IF StartsFrame
               THEN [h1 EXCEPT !.started   = TRUE,
                               !.segs      = <<>>,
                               !.lastFrame = IF hist.started
                                               THEN Append(hist.segs, SegmentEnded) ELSE @,
                               !.lastClean = hist.started /\ hist.clean,
                               !.clean     = TRUE]
               ELSE [h1 EXCEPT !.segs = IF hist.started THEN Append(@, SegmentEnded) ELSE @]

TIMER1_COMPA_vect ==
  /\ sregI
  /\ IF pulse
       THEN /\ pin'   = HIGH
            /\ pulse' = FALSE
            /\ IF LastChannelDone
                 THEN /\ OCR1A' = SyncTicks(rest)
                      /\ chan'  = 0
                 ELSE /\ OCR1A' = GapTicks(Clamp(ch[chan]))
                      /\ chan'  = chan + 1
            /\ rest' = rest
       ELSE /\ pin'   = LOW
            /\ pulse' = TRUE
            /\ OCR1A' = PulseTicks
            /\ rest'  = IF RecomputesRest THEN SyncGap(ch) ELSE rest
            /\ chan'  = chan
  /\ hist' = TimerHist
  /\ UNCHANGED <<variant, storeVars, decVars, loopVars>>

-----------------------------------------------------------------------------
(* Command lines.  A line is the sequence of its comma separated fields after     *)
(* trim(): an empty field, a field of digits (its value), or any other text.      *)

Num(v) == [kind |-> "num", val |-> v]
Junk   == [kind |-> "junk", val |-> 0]
Blank  == [kind |-> "empty", val |-> 0]

\* s.length() == 0 after s.trim()
IsEmptyLine(line) == Len(line) = 1 /\ line[1].kind = "empty"

\* String::toInt(): the leading integer of the text, 0 when there is none
toInt(tok) == IF tok.kind = "num" THEN tok.val ELSE 0

\* while (start < s.length() && n < limit) { ... if (tok.length() > 0) tmp[n++] = clamp(tok.toInt()) ... }
RECURSIVE ParseFrom(_, _, _, _)
ParseFrom(line, i, acc, limit) ==
  IF i > Len(line) \/ Len(acc) >= limit
    THEN acc
    ELSE ParseFrom(line, i + 1,
                   IF line[i].kind # "empty" THEN Append(acc, Clamp(toInt(line[i]))) ELSE acc,
                   limit)

ParseLine(line, limit) == ParseFrom(line, 1, <<>>, limit)

NoAck        == [kind |-> "none", n |-> 0]
AckOK(k)     == [kind |-> "OK", n |-> k]       \* "OK: <n> channels updated"
AckERR       == [kind |-> "ERR", n |-> 0]      \* "ERR: no numbers found"
AckPC(k)     == [kind |-> "PC", n |-> k]       \* "PC updated CH1..CH<n>"

noInterrupts_left_enabled == TRUE

\* The value of the global interrupt flag after noInterrupts() and after interrupts()
noInterrupts == FALSE
interrupts   == TRUE

\* History of one element write
NoteWrite(h) == [h EXCEPT !.wroteIE = @ \/ sregI, !.clean = FALSE]

-----------------------------------------------------------------------------
(* Encoder sketch (part_000): loop(), cut at its interrupt points                 *)

\* ch[] after for (i < n) ch[i] = tmp[i]
StoreWith(c, t) == [i \in DOMAIN c |-> IF i < Len(t) THEN t[i + 1] ELSE c[i]]

\* History of one line read: in SpecCmd the line and the store it met
CmdHist(line) ==
  IF hist.mode = "cmd"
    THEN [hist EXCEPT !.nCmd = @ + 1, !.line = line, !.chPrev = ch]
  ELSE IF hist.mode \in {"store", "loop"} THEN hist
  ELSE [hist EXCEPT !.nCmd = @ + 1]

\* Lines and demo steps are counted and bounded, except in SpecStore where the
\* store's values are all of the state
CmdBudget  == hist.mode \in {"store", "loop"} \/ hist.nCmd < MaxCmds
DemoBudget == hist.mode = "store" \/ hist.nDemo < MaxDemoSteps

\* Serial.readStringUntil('\n'), trim, parse
EncReadLine(line) ==
  /\ variant = "encoder"
  /\ lpc = "idle"
  /\ CmdBudget
  /\ IF IsEmptyLine(line)
       THEN /\ ack' = NoAck
            /\ UNCHANGED <<lpc, tmp, n>>
       ELSE /\ tmp' = ParseLine(line, CHANNELS)
            /\ n'   = Len(tmp')
            /\ IF n' > 0
                 THEN lpc' = "cli" /\ ack' = NoAck
                 ELSE lpc' = "demo" /\ ack' = AckERR
  /\ hist' = CmdHist(line)
  /\ UNCHANGED <<variant, hasFrame, chA, chB, storeVars, encVars, decVars, sregI, wi, pcVals, buf, count,
                 ready, filtCh7, filtCh8, demoV, demoDir>>

EncNoInterrupts ==
  /\ variant = "encoder"
  /\ lpc = "cli"
  /\ sregI' = noInterrupts
  /\ wi' = 0
  /\ lpc' = "write"
  /\ UNCHANGED hist
  /\ UNCHANGED <<variant, hasFrame, chA, chB, storeVars, encVars, decVars, tmp, n, pcVals, buf, count, ready,
                 filtCh7, filtCh8, demoV, demoDir, ack>>

\* ch[i] = tmp[i]
EncWrite ==
  /\ variant = "encoder"
  /\ lpc = "write"
  /\ wi < n
  /\ ch' = [ch EXCEPT ![wi] = tmp[wi + 1]]
  /\ wi' = wi + 1
  /\ hist' = NoteWrite(hist)
  /\ UNCHANGED <<variant, hasFrame, chA, chB, encVars, decVars, sregI, lpc, tmp, n, pcVals, buf, count, ready,
                 filtCh7, filtCh8, demoV, demoDir, ack>>

\* interrupts(); Serial.print("OK: ") ...
EncInterrupts ==
  /\ variant = "encoder"
  /\ lpc = "write"
  /\ wi >= n
  /\ sregI' = interrupts
  /\ ack' = AckOK(n)
  /\ lpc' = "demo"
  /\ tmp' = <<>> /\ n' = 0 /\ wi' = 0
  /\ hist' = [hist EXCEPT !.updDone = @ \/ (n >= 2)]
  /\ UNCHANGED <<variant, hasFrame, chA, chB, storeVars, encVars, decVars, pcVals, buf, count, ready,
                 filtCh7, filtCh8, demoV, demoDir>>

\* v += dir; if (v > 1900 || v < 1100) dir = -dir;
DemoNextV   == demoV + demoDir
DemoNextDir == IF DemoNextV > 1900 \/ DemoNextV < 1100 THEN 0 - demoDir ELSE demoDir
DemoCh4(v)  == v % U16                \* ch[4] = v
DemoCh5(v)  == (3000 - v) % U16       \* ch[5] = 3000 - v

\* The demo branch is taken when no serial data is pending, more than 2000 ms have
\* passed since t_last and more than 20 ms since t_anim; time is not modelled, so
\* the branch is a choice of the environment.
EncDemoStep ==
  /\ variant = "encoder"
  /\ lpc \in {"idle", "demo"}
  /\ DemoBudget
  /\ demoV'   = DemoNextV
  /\ demoDir' = DemoNextDir
  /\ lpc' = "dcli"
  /\ hist' = IF hist.mode = "store" THEN hist ELSE [hist EXCEPT !.nDemo = @ + 1]
  /\ UNCHANGED <<variant, hasFrame, chA, chB, storeVars, encVars, decVars, sregI, tmp, n, wi, pcVals, buf,
                 count, ready, filtCh7, filtCh8, ack>>

\* else { t_last = millis(); } or the 20 ms step not yet due
EncDemoSkip ==
  /\ variant = "encoder"
  /\ lpc = "demo"
  /\ lpc' = "idle"
  /\ UNCHANGED <<variant, hasFrame, chA, chB, storeVars, encVars, decVars, sregI, tmp, n, wi, pcVals, buf,
                 count, ready, filtCh7, filtCh8, demoV, demoDir, ack, hist>>

EncDemoNoInterrupts ==
  /\ variant = "encoder"
  /\ lpc = "dcli"
  /\ sregI' = noInterrupts
  /\ lpc' = "dw4"
  /\ UNCHANGED hist
  /\ UNCHANGED <<variant, hasFrame, chA, chB, storeVars, encVars, decVars, tmp, n, wi, pcVals, buf, count,
                 ready, filtCh7, filtCh8, demoV, demoDir, ack>>

EncDemoWrite4 ==
  /\ variant = "encoder"
  /\ lpc = "dw4"
  /\ ch' = [ch EXCEPT ![4] = DemoCh4(demoV)]
  /\ lpc' = "dw5"
  /\ hist' = NoteWrite(hist)
  /\ UNCHANGED <<variant, hasFrame, chA, chB, encVars, decVars, sregI, tmp, n, wi, pcVals, buf, count, ready,
                 filtCh7, filtCh8, demoV, demoDir, ack>>

EncDemoWrite5 ==
  /\ variant = "encoder"
  /\ lpc = "dw5"
  /\ ch' = [ch EXCEPT ![5] = DemoCh5(demoV)]
  /\ lpc' = "dsei"
  /\ hist' = NoteWrite(hist)
  /\ UNCHANGED <<variant, hasFrame, chA, chB, encVars, decVars, sregI, tmp, n, wi, pcVals, buf, count, ready,
                 filtCh7, filtCh8, demoV, demoDir, ack>>

EncDemoInterrupts ==
  /\ variant = "encoder"
  /\ lpc = "dsei"
  /\ sregI' = interrupts
  /\ lpc' = "idle"
  /\ hist' = [hist EXCEPT !.updDone = TRUE]
  /\ UNCHANGED <<variant, hasFrame, chA, chB, storeVars, encVars, decVars, tmp, n, wi, pcVals, buf, count,
                 ready, filtCh7, filtCh8, demoV, demoDir, ack>>

-----------------------------------------------------------------------------
(* Decoder: ppmEdgeISR().  dt = micros() - lastEdgeMicros is the handler's input;  *)
(* the time stamp itself is not kept.                                            *)

IsSync_at_threshold(dt) == dt >= SYNC_MIN_US

IsSync(dt)  == dt > SYNC_MIN_US
IsValid_no_upper(dt) == dt >= CH_MIN_US

IsValid(dt) == dt >= CH_MIN_US /\ dt <= CH_MAX_US

\* for (i < isrCount && i < MAX_CHANNELS) frameChannels[i] = isrChannels[i];
Published ==
  [i \in 0 .. MAX_CHANNELS - 1 |->
     IF i < isrCount /\ i < MAX_CHANNELS THEN isrChannels[i] ELSE frameChannels[i]]

\* The frame a publish hands over: its count and its first count channels
FrameOf(cnt, arr) == [count |-> cnt, channels |-> [i \in 1 .. Min(cnt, MAX_CHANNELS) |-> arr[i - 1]]]

\* The log SpecDec keeps of the intervals handled since the start, for as long as
\* they read: a sync, then valid intervals, then a closing sync.  NoLog afterwards.
NoLog == <<0>>

\* No falling edge of the looped-back output is waiting for the edge handler
NoEdge == 0 - 1

LogComplete(log) == Len(log) >= 3 /\ IsSync(log[Len(log)])

LogNext(log, dt) ==
  IF log = NoLog \/ LogComplete(log) THEN NoLog
  ELSE IF log = <<>> THEN (IF IsSync(dt) THEN <<dt>> ELSE NoLog)
  ELSE IF IsValid(dt) /\ Len(log) <= MAX_CHANNELS THEN Append(log, dt)
  ELSE IF IsSync(dt) /\ Len(log) >= 2 THEN Append(log, dt)
  ELSE NoLog

\* The intervals SpecEdges counts as the frame in progress: those in [900,2100]
\* since the last sync, at most MAX_CHANNELS of them; NoLog when there was no sync
\* yet or an interval was rejected since.  A duplicate edge (0) is no interval.
RunNext(run, dt) ==
  IF dt = 0 THEN run
  ELSE IF dt > 3000 THEN <<>>
  ELSE IF dt >= 900 /\ dt <= 2100 /\ run # NoLog /\ Len(run) < 16 THEN Append(run, dt)
  ELSE NoLog

EdgeHist(dt) ==
  IF hist.mode = "dec"
    THEN [hist EXCEPT !.dts = LogNext(@, dt)]
  ELSE IF hist.mode = "edges"
    THEN LET closes == dt > 3000 /\ hist.got # NoLog /\ hist.got # <<>>
         IN  [hist EXCEPT !.lastDt     = dt,
                          !.got        = RunNext(@, dt),
                          !.closedRun  = IF closes THEN hist.got ELSE @,
                          !.justClosed = closes,
                          !.dropped    = @ \/ (dt # 0 /\ ~(dt > 3000) /\ isrCount > 0
                                                /\ RunNext(hist.got, dt) = NoLog)]
  ELSE IF hist.mode = "loop"
    THEN [hist EXCEPT !.edgeDt   = NoEdge,
                      !.edgeSeen = TRUE,
                      !.synced   = @ \/ dt > 3000,
                      !.pubs     = IF IsSync(dt) /\ isrCount > 0
                                     THEN Min(@ + 1, MaxPubs) ELSE @]
    ELSE LET pub == dt # 0 /\ IsSync(dt) /\ isrCount > 0
             h1  == [hist EXCEPT !.nEdge = @ + 1, !.lastDt = dt]
         IN  IF pub
               THEN [h1 EXCEPT !.pubSeq  = @ + 1,
                               !.lastPub = FrameOf(isrCount, isrChannels)]
               ELSE h1

SyncStarts_keeps_flag == frameStarted

\* frameStarted = true; in the sync branch
SyncStarts == TRUE

Publishes_unless_unread == isrCount > 0 /\ ~frameReady

\* if (isrCount > 0) { copy; frameReady = true; }
Publishes == isrCount > 0

ppmEdgeISR(dt) ==
  /\ sregI
  /\ IF dt = 0
       THEN UNCHANGED decVars
       ELSE IF IsSync(dt)
         THEN /\ IF Publishes
                   THEN /\ frameChannels' = Published
                        /\ frameCount'    = isrCount
                        /\ frameReady'    = TRUE
                   ELSE UNCHANGED <<frameChannels, frameCount, frameReady>>
              /\ isrCount'     = 0
              /\ frameStarted' = SyncStarts
              /\ UNCHANGED isrChannels
         ELSE IF IsValid(dt) /\ frameStarted /\ isrCount < MAX_CHANNELS
           THEN /\ isrChannels' = [isrChannels EXCEPT ![isrCount] = clampU16(dt % U16, 1000, 2000)]
                /\ isrCount'    = isrCount + 1
                /\ UNCHANGED <<frameStarted, frameChannels, frameCount, frameReady>>
           ELSE /\ isrCount'     = 0
                /\ frameStarted' = FALSE
                /\ UNCHANGED <<isrChannels, frameChannels, frameCount, frameReady>>
  /\ hist' = EdgeHist(dt)
  /\ UNCHANGED <<variant, storeVars, encVars, loopVars>>

-----------------------------------------------------------------------------
(* Bridge sketch (merged_code): smoothing filter and loop()                      *)

ToInt16(x) == IF x >= 32768 THEN x - U16 ELSE x

smoothUpdate_toward_zero(oldVal, newVal) ==
  LET diff == ToInt16((ToInt16(newVal) - ToInt16(oldVal)) % U16)
      q    == IF diff < 0 THEN 0 - ((0 - diff) \div (2 ^ SMOOTH_SHIFT))
                          ELSE diff \div (2 ^ SMOOTH_SHIFT)
  IN  (oldVal + q) % U16

\* int16_t diff = (int16_t)newVal - (int16_t)oldVal;
\* return (uint16_t)(oldVal + (diff >> SMOOTH_SHIFT));
\* (avr-gcc shifts a negative int arithmetically: diff >> 3 is floor(diff / 8))
smoothUpdate(oldVal, newVal) ==
  LET diff == ToInt16((ToInt16(newVal) - ToInt16(oldVal)) % U16)
  IN  (oldVal + (diff \div (2 ^ SMOOTH_SHIFT))) % U16

\* pcVals[] after for (i < n) pcVals[i] = tmp[i]
PcValsWith(p, t) == [i \in DOMAIN p |-> IF i < Len(t) THEN t[i + 1] ELSE p[i]]

BrReadLine(line) ==
  /\ variant = "bridge"
  /\ lpc = "idle"
  /\ CmdBudget
  /\ IF IsEmptyLine(line)
       THEN /\ lpc' = "consume"
            /\ UNCHANGED <<tmp, n, pcVals>>
       ELSE /\ tmp' = ParseLine(line, PC_CHANNELS)
            /\ n'   = Len(tmp')
            /\ IF n' > 0
                 THEN pcVals' = PcValsWith(pcVals, tmp') /\ lpc' = "cli"
                 ELSE pcVals' = pcVals /\ lpc' = "consume"
  /\ ack' = NoAck
  /\ hist' = CmdHist(line)
  /\ UNCHANGED <<variant, hasFrame, chA, chB, storeVars, encVars, decVars, sregI, wi, buf, count, ready,
                 filtCh7, filtCh8, demoV, demoDir>>

BrNoInterrupts ==
  /\ variant = "bridge"
  /\ lpc = "cli"
  /\ sregI' = noInterrupts
  /\ wi' = 0
  /\ lpc' = "write"
  /\ UNCHANGED <<variant, hasFrame, chA, chB, storeVars, encVars, decVars, tmp, n, pcVals, buf, count, ready,
                 filtCh7, filtCh8, demoV, demoDir, ack, hist>>

\* for (i < 6) ch[i] = pcVals[i];
BrWrite ==
  /\ variant = "bridge"
  /\ lpc = "write"
  /\ wi < PC_CHANNELS
  /\ ch' = [ch EXCEPT ![wi] = pcVals[wi]]
  /\ wi' = wi + 1
  /\ hist' = NoteWrite(hist)
  /\ UNCHANGED <<variant, hasFrame, chA, chB, encVars, decVars, sregI, lpc, tmp, n, pcVals, buf, count, ready,
                 filtCh7, filtCh8, demoV, demoDir, ack>>

BrInterrupts ==
  /\ variant = "bridge"
  /\ lpc = "write"
  /\ wi >= PC_CHANNELS
  /\ sregI' = interrupts
  /\ ack' = AckPC(n)
  /\ lpc' = "consume"
  /\ tmp' = <<>> /\ n' = 0 /\ wi' = 0
  /\ hist' = [hist EXCEPT !.updDone = TRUE]
  /\ UNCHANGED <<variant, hasFrame, chA, chB, storeVars, encVars, decVars, pcVals, buf, count, ready,
                 filtCh7, filtCh8, demoV, demoDir>>

\* uint16_t buf[MAX_CHANNELS]; count = 0; ready = false; noInterrupts();
BrTakeNoInterrupts ==
  /\ variant = "bridge"
  /\ lpc \in {"idle", "consume"}
  /\ sregI' = noInterrupts
  /\ lpc' = "chk"
  /\ UNCHANGED <<variant, hasFrame, chA, chB, storeVars, encVars, decVars, tmp, n, wi, pcVals, buf, count,
                 ready, filtCh7, filtCh8, demoV, demoDir, ack, hist>>

ClearReady_forgotten == TRUE

\* The value written to frameReady by the consumer
ClearReady == FALSE

\* if (frameReady) { frameReady = false; count = frameCount; if (count > MAX) count = MAX;
BrTakeCheck ==
  /\ variant = "bridge"
  /\ lpc = "chk"
  /\ IF frameReady
       THEN /\ frameReady' = ClearReady
            /\ count' = Min(frameCount, MAX_CHANNELS)
            /\ wi' = 0
            /\ lpc' = "copy"
            /\ hist' = [hist EXCEPT !.consSeq = hist.pubSeq, !.consPub = hist.lastPub,
                                    !.prevCons = hist.consSeq]
       ELSE /\ lpc' = "csei"
            /\ UNCHANGED <<frameReady, count, wi, hist>>
  /\ UNCHANGED <<variant, hasFrame, chA, chB, storeVars, encVars, isrChannels, isrCount, frameStarted,
                 frameChannels, frameCount, sregI, tmp, n, pcVals, buf, ready, filtCh7,
                 filtCh8, demoV, demoDir, ack>>

\* for (i < count) buf[i] = frameChannels[i];  ready = true;
BrTakeCopy ==
  /\ variant = "bridge"
  /\ lpc = "copy"
  /\ IF wi < count
       THEN /\ buf' = [buf EXCEPT ![wi] = frameChannels[wi]]
            /\ wi' = wi + 1
            /\ UNCHANGED <<ready, lpc>>
       ELSE /\ ready' = TRUE
            /\ lpc' = "csei"
            /\ UNCHANGED <<buf, wi>>
  /\ UNCHANGED <<variant, hasFrame, chA, chB, storeVars, encVars, decVars, sregI, tmp, n, pcVals, count,
                 filtCh7, filtCh8, demoV, demoDir, ack, hist>>

EnoughChannels_any == count >= 1

\* if (count >= 8)
EnoughChannels == count >= 8

\* interrupts(); if (ready) { if (count >= 8) { ...
BrTakeInterrupts ==
  /\ variant = "bridge"
  /\ lpc = "csei"
  /\ sregI' = interrupts
  /\ IF ready /\ EnoughChannels
       THEN /\ lpc' = "smooth"
            /\ UNCHANGED <<buf, count, ready, wi>>
       ELSE /\ lpc' = "idle"
            /\ buf' = ZeroArray /\ count' = 0 /\ ready' = FALSE /\ wi' = 0
  /\ hist' = [hist EXCEPT !.taken = @ \/ ready]
  /\ UNCHANGED <<variant, hasFrame, chA, chB, storeVars, encVars, decVars, tmp, n, pcVals, filtCh7, filtCh8,
                 demoV, demoDir, ack>>

\* History of one CH7 update in SpecFilt: the value before, the raw input, and how
\* many updates there have been while the raw input was never anything but 2000
SmoothHist(raw7) ==
  IF hist.mode = "filt"
    THEN LET held == hist.held /\ raw7 = 2000
         IN  [hist EXCEPT !.upd  = TRUE,
                          !.prev = filtCh7,
                          !.raw  = raw7,
                          !.held = held,
                          !.from = IF held THEN @ ELSE 0,
                          !.run  = IF held THEN Min(@ + 1, MaxRun) ELSE 0]
    ELSE hist

\* The frame take of loop() as the one step it is for the edge handler, when a
\* frame of CHANNELS values with r7, r8 in its last two places is ready
FrameWith(r7, r8) ==
  [i \in 0 .. MAX_CHANNELS - 1 |->
     IF i = 6 THEN r7 ELSE IF i = 7 THEN r8 ELSE IF i < CHANNELS THEN NEUTRAL ELSE 0]

BrTakeFrame(r7, r8) ==
  /\ variant = "bridge"
  /\ lpc \in {"idle", "consume"}
  /\ frameChannels' = FrameWith(r7, r8) /\ frameCount' = CHANNELS /\ frameReady' = FALSE
  /\ buf' = FrameWith(r7, r8) /\ count' = CHANNELS /\ ready' = TRUE
  /\ lpc' = "smooth"
  /\ UNCHANGED <<variant, hasFrame, chA, chB, storeVars, encVars, isrChannels, isrCount, frameStarted,
                 sregI, tmp, n, wi, pcVals, filtCh7, filtCh8, demoV, demoDir, ack, hist>>

\* raw7 = clampU16(buf[6], 1000, 2000); filtCh7 = smoothUpdate(filtCh7, raw7); same for 8
BrSmooth ==
  /\ variant = "bridge"
  /\ lpc = "smooth"
  /\ filtCh7' = smoothUpdate(filtCh7, clampU16(buf[6], 1000, 2000))
  /\ filtCh8' = smoothUpdate(filtCh8, clampU16(buf[7], 1000, 2000))
  /\ lpc' = "cli7"
  /\ hist' = SmoothHist(clampU16(buf[6], 1000, 2000))
  /\ UNCHANGED <<variant, hasFrame, chA, chB, storeVars, encVars, decVars, sregI, tmp, n, wi, pcVals, buf,
                 count, ready, demoV, demoDir, ack>>

BrOutNoInterrupts ==
  /\ variant = "bridge"
  /\ lpc = "cli7"
  /\ sregI' = noInterrupts
  /\ lpc' = "w7"
  /\ UNCHANGED <<variant, hasFrame, chA, chB, storeVars, encVars, decVars, tmp, n, wi, pcVals, buf, count,
                 ready, filtCh7, filtCh8, demoV, demoDir, ack, hist>>

\* ch[6] = filtCh7;
BrWrite7 ==
  /\ variant = "bridge"
  /\ lpc = "w7"
  /\ ch' = [ch EXCEPT ![6] = filtCh7]
  /\ lpc' = "w8"
  /\ hist' = NoteWrite(hist)
  /\ UNCHANGED <<variant, hasFrame, chA, chB, encVars, decVars, sregI, tmp, n, wi, pcVals, buf, count, ready,
                 filtCh7, filtCh8, demoV, demoDir, ack>>

\* ch[7] = filtCh8;
BrWrite8 ==
  /\ variant = "bridge"
  /\ lpc = "w8"
  /\ ch' = [ch EXCEPT ![7] = filtCh8]
  /\ lpc' = "sei7"
  /\ hist' = NoteWrite(hist)
  /\ UNCHANGED <<variant, hasFrame, chA, chB, encVars, decVars, sregI, tmp, n, wi, pcVals, buf, count, ready,
                 filtCh7, filtCh8, demoV, demoDir, ack>>

BrOutInterrupts ==
  /\ variant = "bridge"
  /\ lpc = "sei7"
  /\ sregI' = interrupts
  /\ lpc' = "idle"
  /\ buf' = ZeroArray /\ count' = 0 /\ ready' = FALSE /\ wi' = 0
  /\ hist' = [hist EXCEPT !.updDone = TRUE]
  /\ UNCHANGED <<variant, hasFrame, chA, chB, storeVars, encVars, decVars, tmp, n, pcVals, filtCh7, filtCh8,
                 demoV, demoDir, ack>>

-----------------------------------------------------------------------------
(* Decoder sketch (headtracker_to_arduino): loop()                                *)

\* if (now - lastPrint < 100) return; ... noInterrupts();
DecTakeNoInterrupts ==
  /\ variant = "decoder"
  /\ lpc = "idle"
  /\ sregI' = noInterrupts
  /\ lpc' = "chk"
  /\ UNCHANGED <<variant, storeVars, encVars, decVars, tmp, n, wi, pcVals, buf, count,
                 ready, hasFrame, chA, chB, filtCh7, filtCh8, demoV, demoDir, ack, hist>>

\* if (frameReady) { frameReady = false; count = frameCount; if (count >= 8) ...
\* } else { count = frameCount; }
DecTakeCheck ==
  /\ variant = "decoder"
  /\ lpc = "chk"
  /\ count' = frameCount
  /\ IF frameReady
       THEN /\ frameReady' = ClearReady
            /\ lpc' = IF frameCount >= 8 THEN "rdA" ELSE "csei"
            /\ hist' = [hist EXCEPT !.consSeq = hist.pubSeq, !.consPub = hist.lastPub,
                                    !.prevCons = hist.consSeq]
       ELSE /\ lpc' = "csei"
            /\ UNCHANGED <<frameReady, hist>>
  /\ UNCHANGED <<variant, storeVars, encVars, isrChannels, isrCount, frameStarted,
                 frameChannels, frameCount, sregI, tmp, n, wi, pcVals, buf, ready,
                 hasFrame, chA, chB, filtCh7, filtCh8, demoV, demoDir, ack>>

\* chA = frameChannels[count - 2];
DecReadA ==
  /\ variant = "decoder"
  /\ lpc = "rdA"
  /\ chA' = frameChannels[count - 2]
  /\ lpc' = "rdB"
  /\ UNCHANGED <<variant, storeVars, encVars, decVars, sregI, tmp, n, wi, pcVals, buf,
                 count, ready, hasFrame, chB, filtCh7, filtCh8, demoV, demoDir, ack, hist>>

\* chB = frameChannels[count - 1]; hasFrame = true;
DecReadB ==
  /\ variant = "decoder"
  /\ lpc = "rdB"
  /\ chB' = frameChannels[count - 1]
  /\ hasFrame' = TRUE
  /\ lpc' = "csei"
  /\ UNCHANGED <<variant, storeVars, encVars, decVars, sregI, tmp, n, wi, pcVals, buf,
                 count, ready, chA, filtCh7, filtCh8, demoV, demoDir, ack, hist>>

\* interrupts(); the report is printed and the locals die with the call
DecTakeInterrupts ==
  /\ variant = "decoder"
  /\ lpc = "csei"
  /\ sregI' = interrupts
  /\ lpc' = "idle"
  /\ count' = 0 /\ hasFrame' = FALSE /\ chA' = NEUTRAL /\ chB' = NEUTRAL
  /\ hist' = [hist EXCEPT !.taken = @ \/ hasFrame]
  /\ UNCHANGED <<variant, storeVars, encVars, decVars, tmp, n, wi, pcVals, buf, ready,
                 filtCh7, filtCh8, demoV, demoDir, ack>>

-----------------------------------------------------------------------------
(* Initial state: the globals' initialisers, setup() done                        *)

InitHist ==
  [mode |-> "irq", dts |-> <<>>, edgeSeen |-> FALSE, synced |-> FALSE, lastDt |-> NoEdge, got |-> NoLog, closedRun |-> NoLog, justClosed |-> FALSE, dropped |-> FALSE, done |-> FALSE, chAtStart |-> <<>>, lastCh |-> <<>>, lastGap |-> 0, fired |-> 0, lastFired |-> 0, upd |-> FALSE, prev |-> 0, raw |-> 0, held |-> TRUE, from |-> 0, run |-> 0, line |-> <<>>, chPrev |-> <<>>, sinceFall |-> 0, edgeDt |-> NoEdge, pubs |-> 0, started |-> FALSE, segs |-> <<>>, lastFrame |-> <<>>, clean |-> TRUE,
   lastClean |-> FALSE, isrTorn |-> FALSE, wroteIE |-> FALSE, updDone |-> FALSE,
   isrAfterUpd |-> FALSE, nCmd |-> 0, nDemo |-> 0, nEdge |-> 0,
   pubSeq |-> 0, lastPub |-> FrameOf(0, ZeroArray),
   consSeq |-> 0, consPub |-> FrameOf(0, ZeroArray), prevCons |-> 0, taken |-> FALSE]

\* Everything but the channel store and the filtered values
InitOther ==
  /\ pulse = FALSE /\ chan = 0 /\ rest = 0 /\ OCR1A = OCR1A_INIT /\ pin = HIGH
  /\ isrChannels = ZeroArray /\ isrCount = 0 /\ frameStarted = FALSE
  /\ frameChannels = ZeroArray /\ frameCount = 0 /\ frameReady = FALSE
  /\ sregI = TRUE /\ lpc = "idle"
  /\ tmp = <<>> /\ n = 0 /\ wi = 0
  /\ pcVals = [i \in 0 .. PC_CHANNELS - 1 |-> NEUTRAL]
  /\ buf = ZeroArray /\ count = 0 /\ ready = FALSE
  /\ hasFrame = FALSE /\ chA = NEUTRAL /\ chB = NEUTRAL
  /\ demoV = NEUTRAL /\ demoDir = 5
  /\ ack = NoAck

\* Everything but the channel store
InitRest == InitOther /\ filtCh7 = NEUTRAL /\ filtCh8 = NEUTRAL

InitProgram == ch = InitStore /\ InitRest

-----------------------------------------------------------------------------
(* Spec: either sketch with an encoder, at interrupt level                        *)

Rep(v, k) == [i \in 1 .. k |-> v]

EncLines ==
  { <<Num(500), Num(2500), Num(1700)>>,
    Rep(Num(2000), CHANNELS),
    <<Blank, Blank>>,
    <<Blank>> }

\* The upstream PPM source of the bridge's input pin: frames of CHANNELS pulse
\* positions, the two the bridge uses at 2000, each frame ended by a sync gap.
\* k edges have been delivered so far.
UpstreamDt(k) ==
  LET pos == k % (CHANNELS + 1)
  IN  IF pos = 0 THEN 3500 ELSE IF pos \in {7, 8} THEN 2000 ELSE NEUTRAL

Init ==
  /\ variant \in {"encoder", "bridge"}
  /\ InitProgram
  /\ hist = InitHist

Next ==
  \/ TIMER1_COMPA_vect
  \/ \E line \in EncLines : EncReadLine(line)
  \/ EncNoInterrupts
  \/ EncWrite
  \/ EncInterrupts
  \/ EncDemoStep
  \/ EncDemoSkip
  \/ EncDemoNoInterrupts
  \/ EncDemoWrite4
  \/ EncDemoWrite5
  \/ EncDemoInterrupts
  \/ variant = "bridge" /\ hist.nEdge < MaxEdges /\ ppmEdgeISR(UpstreamDt(hist.nEdge))
  \/ \E line \in EncLines : BrReadLine(line)
  \/ BrNoInterrupts
  \/ BrWrite
  \/ BrInterrupts
  \/ BrTakeNoInterrupts
  \/ BrTakeCheck
  \/ BrTakeCopy
  \/ BrTakeInterrupts
  \/ BrSmooth
  \/ BrOutNoInterrupts
  \/ BrWrite7
  \/ BrWrite8
  \/ BrOutInterrupts

Spec == Init /\ [][Next]_vars

-----------------------------------------------------------------------------
(* Claims about the encoder's waveform (Spec)                                    *)

RECURSIVE Duration(_)
Duration(f) == IF f = <<>> THEN 0 ELSE Head(f).us + Duration(Tail(f))

LowCount(f) == Cardinality({k \in 1 .. Len(f) : f[k].lvl = LOW})

InRange(c) == \A i \in DOMAIN c : c[i] >= 1000 /\ c[i] <= 2000

\* A frame has been completed and the store was not written during it or since
HeldFrame == hist.started /\ hist.lastClean /\ hist.clean /\ InRange(ch)

\* C1: with the store held constant at values in [1000,2000], the time from one
\* frame start to the next is FRAME_LEN when sum + N*PULSE_LEN <= FRAME_LEN - 1000,
\* and N*PULSE_LEN + sum + 1000 otherwise.
C1_FrameLasts_FRAME_LEN ==
  HeldFrame =>
    Duration(hist.lastFrame) =
      (IF ClampedSum(ch) + CHANNELS * PULSE_LEN <= FRAME_LEN - 1000
         THEN FRAME_LEN
         ELSE CHANNELS * PULSE_LEN + ClampedSum(ch) + 1000)

\* The duration the handler produces: one pulse more than the channels, and a sync
\* gap that subtracts the channel values, of which the pulses are already a part.
C1_CodeFrameLasts ==
  HeldFrame => Duration(hist.lastFrame) = FRAME_LEN - (CHANNELS - 1) * PULSE_LEN

C1_HeldFrameSeen == HeldFrame /\ ch[0] = 1000 /\ ch[1] = 2000 /\ ch[2] = 1700

SegmentsOf(c) ==
  LET gap == FRAME_LEN - CHANNELS * PULSE_LEN - ClampedSum(c)
  IN  [k \in 1 .. 2 * (CHANNELS + 1) |->
         IF k % 2 = 1 THEN [lvl |-> LOW, us |-> PULSE_LEN]
         ELSE IF k <= 2 * CHANNELS
           THEN [lvl |-> HIGH, us |-> Clamp(c[(k \div 2) - 1]) - PULSE_LEN]
           ELSE [lvl |-> HIGH, us |-> IF gap < 1000 THEN 1000 ELSE gap]]

C5_NoTornStore == ~hist.isrTorn /\ ~hist.wroteIE

C5_IsrAfterBridgeUpdate ==
  variant = "bridge" /\ hist.isrAfterUpd /\ ch[6] # NEUTRAL /\ ch[0] = 1000 /\ sregI

-----------------------------------------------------------------------------
(* SpecTake: the decoder and its consumer (bridge or decoder sketch)             *)

\* Intervals of the input: a sync gap after 0, 2 or CHANNELS pulse positions, or the
\* next pulse position; positions 0, 1, 6 and 7 vary.
TakeDts(k) ==
  (IF k \in {0, 2, CHANNELS} THEN {3500} ELSE {})
    \cup (IF k >= CHANNELS THEN {}
          ELSE IF k \in {0, 1, 6, 7} THEN {1000, 2000} ELSE {NEUTRAL})

InitTake ==
  /\ variant \in {"bridge", "decoder"}
  /\ InitProgram
  /\ hist = InitHist

NextTake ==
  \/ \E dt \in TakeDts(isrCount) : hist.nEdge < MaxTakeEdges /\ ppmEdgeISR(dt)
  \/ BrTakeNoInterrupts
  \/ BrTakeCheck
  \/ BrTakeCopy
  \/ BrTakeInterrupts
  \/ BrSmooth
  \/ BrOutNoInterrupts
  \/ BrWrite7
  \/ BrWrite8
  \/ BrOutInterrupts
  \/ DecTakeNoInterrupts
  \/ DecTakeCheck
  \/ DecReadA
  \/ DecReadB
  \/ DecTakeInterrupts

SpecTake == InitTake /\ [][NextTake]_vars

\* The loop holds a complete snapshot of the capture buffer
BridgeSnapshot  == variant = "bridge" /\ lpc = "csei" /\ ready
DecoderSnapshot == variant = "decoder" /\ lpc = "csei" /\ hasFrame

\* The loop is between its test of frameReady and the end of its copy
Taking ==
  \/ lpc \in {"copy", "rdA", "rdB"}
  \/ BridgeSnapshot
  \/ DecoderSnapshot

\* C6: the snapshot the loop copies when it finds frameReady is the content of one
\* single publish, frameReady is cleared in the critical section that copies, and
\* no publish is consumed twice.
C6_AtomicTake ==
  /\ BridgeSnapshot => FrameOf(count, buf) = hist.consPub
  /\ DecoderSnapshot =>
       /\ count = hist.consPub.count
       /\ chA = hist.consPub.channels[count - 1]
       /\ chB = hist.consPub.channels[count]
  /\ Taking => ~sregI /\ ~frameReady /\ hist.consSeq = hist.pubSeq
  /\ hist.consSeq > 0 => hist.consSeq > hist.prevCons
  /\ frameReady => FrameOf(frameCount, frameChannels) = hist.lastPub

C6_SecondFrameTaken ==
  /\ BridgeSnapshot
  /\ hist.prevCons > 0
  /\ count = 2
  /\ frameChannels[6] = 2000
  /\ buf[0] = 1000 /\ buf[1] = 2000

\* Frames published since the one the loop consumed before
Skipped == hist.consSeq - hist.prevCons - 1

\* C15: when the decoder has completed two or more frames since the last consume,
\* the loop's snapshot is the count and the channel values of the last of them;
\* a sync met with an empty accumulation leaves the captured frame as it is.
C15_LatestFrameWins ==
  /\ [](/\ (BridgeSnapshot /\ Skipped >= 1) =>
             (FrameOf(count, buf) = hist.lastPub /\ hist.consSeq = hist.pubSeq)
        /\ (DecoderSnapshot /\ Skipped >= 1) =>
             /\ count = hist.lastPub.count /\ hist.consSeq = hist.pubSeq
             /\ chA = hist.lastPub.channels[count - 1]
             /\ chB = hist.lastPub.channels[count])
  /\ [][(hist'.nEdge # hist.nEdge /\ hist'.lastDt > 3000 /\ isrCount = 0) =>
          UNCHANGED <<frameChannels, frameCount, frameReady>>]_vars

C15_OverwrittenFrameSkipped ==
  /\ BridgeSnapshot /\ Skipped >= 1
  /\ count = 2 /\ buf[0] = 2000 /\ buf[1] = 1000
  /\ hist.lastDt > 3000 /\ frameStarted

-----------------------------------------------------------------------------
(* SpecDec: the edge handler alone, fed any sequence of intervals                *)

\* The intervals of Scenario 3, continued at the neutral position up to MAX_CHANNELS
Scenario3 == <<1000, 1200, 1400, 1600, 1800, 2000, 1900, 1750>>

ScenarioDt(k) == IF k < Len(Scenario3) THEN Scenario3[k + 1] ELSE NEUTRAL

\* Inputs when k channels are accumulated: a duplicate edge, sync gaps, intervals
\* that are neither sync nor valid, and valid intervals (the scenario's, and for
\* the leading positions the ends of the valid window and of the clamp).
DecDts(k) ==
  {0, 3500, 2500, 3000}
    \cup {ScenarioDt(k)}
    \cup (IF k < VarSlots THEN {900, 2100} ELSE {})

InitDec ==
  /\ variant = "decoder"
  /\ InitProgram
  /\ hist = [InitHist EXCEPT !.mode = "dec"]

NextDec == \E dt \in DecDts(isrCount) : ppmEdgeISR(dt)

SpecDec == InitDec /\ [][NextDec]_vars

LogOpen(log) == log # NoLog /\ log # <<>> /\ ~LogComplete(log)

\* C4 as stated: once a sync and then k valid intervals are handled, the captured
\* frame is ready with count k and the k clamped intervals.
C4_ReadyAfterLastChannel ==
  (LogOpen(hist.dts) /\ Len(hist.dts) >= 2) =>
    /\ frameReady
    /\ frameCount = Len(hist.dts) - 1
    /\ \A i \in 0 .. Len(hist.dts) - 2 : frameChannels[i] = Clamp(hist.dts[i + 2])

\* C4 (amended): from the initial state, a sync, k valid intervals (1 <= k <= 16)
\* and one more sync make the captured frame ready with count k and the k clamped
\* intervals in order; until that closing sync it is not ready.
C4_ReadyAfterClosingSync ==
  /\ LogComplete(hist.dts) =>
       /\ frameReady
       /\ frameCount = Len(hist.dts) - 2
       /\ \A i \in 0 .. Len(hist.dts) - 3 : frameChannels[i] = Clamp(hist.dts[i + 2])
  /\ (hist.dts = <<>> \/ LogOpen(hist.dts)) => ~frameReady

C4_Scenario3Published ==
  /\ hist.dts = <<3500>> \o Scenario3 \o <<3500>>
  /\ frameReady /\ frameCount = 8 /\ frameChannels[7] = 1750

-----------------------------------------------------------------------------
(* SpecLoopback: the encoder's output wired to the decoder's input.  The store   *)
(* is held constant; every falling edge of the output runs the edge handler with *)
(* the time since the previous falling edge.                                     *)

LoopVals == {1000, 1337, 2000}

HeldStores == [0 .. CHANNELS - 1 -> LoopVals]

\* micros() when the timer is started: the first edge's interval is this plus the
\* first compare period, since the handler's last timestamp starts at 0
BootTimes == {0, 1000, 4000}

InitLoopback ==
  /\ variant = "encoder"
  /\ ch \in HeldStores
  /\ InitRest
  /\ \E t \in BootTimes : hist = [InitHist EXCEPT !.mode = "loop", !.sinceFall = t]

LoopTimer == hist.edgeDt = NoEdge /\ TIMER1_COMPA_vect

LoopEdge == hist.edgeDt # NoEdge /\ ppmEdgeISR(hist.edgeDt)

NextLoopback == LoopTimer \/ LoopEdge

SpecLoopback == InitLoopback /\ [][NextLoopback]_vars

\* C3: with the store held at 8 values in [1000,2000], every frame the decoder
\* publishes from the encoder's falling edges has count 8 and channels[i] = ch[i].
C3_RoundTrip ==
  frameReady =>
    /\ frameCount = CHANNELS
    /\ \A i \in 0 .. CHANNELS - 1 : frameChannels[i] = ch[i]

C3_SecondFramePublished ==
  /\ hist.mode = "loop" /\ hist.pubs >= 2 /\ frameReady
  /\ ch = [i \in 0 .. CHANNELS - 1 |-> IF i % 2 = 0 THEN 1337 ELSE 2000]
  /\ frameChannels[0] = 1337 /\ frameChannels[7] = 2000

-----------------------------------------------------------------------------
(* SpecLive: the loopback of SpecLoopback while command lines rewrite the store, *)
(* any number of times                                                           *)

LiveLines == { <<Num(2000), Num(2000), Num(2000)>>, Rep(Num(1000), CHANNELS) }

InitLive ==
  /\ variant = "encoder"
  /\ InitProgram
  /\ \E t \in BootTimes : hist = [InitHist EXCEPT !.mode = "loop", !.sinceFall = t]

NextLive ==
  \/ LoopTimer
  \/ LoopEdge
  \/ \E line \in LiveLines : EncReadLine(line)
  \/ EncNoInterrupts
  \/ EncWrite
  \/ EncInterrupts
  \/ EncDemoSkip

SpecLive == InitLive /\ [][NextLive]_vars

\* A falling edge is waiting for the edge handler, and it is not the first one
\* (whose interval is the time since power-up)
IntervalEnds == hist.mode = "loop" /\ hist.edgeDt # NoEdge /\ hist.edgeSeen

\* C20: whatever is written to the store between the timer firings, the falling
\* edges inside a frame are 1000 to 2000 us apart and the two around the sync gap
\* more than SYNC_MIN_US; after its first sync the decoder fed with them is never
\* reset, and every frame it publishes has CHANNELS channels.
C20_CompatibleUnderUpdates ==
  /\ IntervalEnds =>
       IF chan = 0 THEN hist.edgeDt > SYNC_MIN_US
                   ELSE hist.edgeDt >= 1000 /\ hist.edgeDt <= 2000
  /\ (hist.mode = "loop" /\ hist.synced) => frameStarted
  /\ frameReady => frameCount = CHANNELS

C20_MixedFramePublished ==
  /\ hist.mode = "loop" /\ hist.synced /\ ~hist.clean /\ hist.pubs >= 2
  /\ lpc = "write" /\ wi = 4
  /\ frameReady /\ frameCount = CHANNELS
  /\ frameChannels[0] = 2000 /\ frameChannels[1] = 2000 /\ frameChannels[3] = NEUTRAL
  /\ ch[0] = 1000 /\ ch[3] = 1000 /\ ch[4] = NEUTRAL

-----------------------------------------------------------------------------
(* SpecCmd: the serial command handlers of the encoder and the bridge sketch     *)

\* Fields a line may carry at position i (from 0)
TokAt(i) ==
  IF i = 0 THEN {Num(500), Num(1000), Num(2000), Num(3000), Junk, Blank}
  ELSE IF i = 1 THEN {Num(2500), Num(1000), Junk, Blank}
  ELSE {Num(1700), Blank}

RECURSIVE LinesOfLen(_)
LinesOfLen(k) ==
  IF k = 0 THEN {<<>>}
  ELSE {Append(l, t) : l \in LinesOfLen(k - 1), t \in TokAt(k - 1)}

\* The short lines, and lines that fill the store of either sketch
CmdLines ==
  UNION {LinesOfLen(k) : k \in 1 .. MaxTok}
    \cup {Rep(Num(2000), CHANNELS), Rep(Num(1000), PC_CHANNELS)}

InitCmd ==
  /\ variant \in {"encoder", "bridge"}
  /\ InitProgram
  /\ hist = [InitHist EXCEPT !.mode = "cmd"]

NextCmd ==
  \/ \E line \in CmdLines : EncReadLine(line)
  \/ EncNoInterrupts
  \/ EncWrite
  \/ EncInterrupts
  \/ EncDemoSkip
  \/ \E line \in CmdLines : BrReadLine(line)
  \/ BrNoInterrupts
  \/ BrWrite
  \/ BrInterrupts
  \/ BrTakeNoInterrupts
  \/ BrTakeCheck
  \/ BrTakeInterrupts

SpecCmd == InitCmd /\ [][NextCmd]_vars

\* The sketch's limit of values per line
Limit == IF variant = "encoder" THEN CHANNELS ELSE PC_CHANNELS

\* The loop has just finished handling hist.line
CmdHandled ==
  /\ hist.mode = "cmd" /\ hist.nCmd > 0
  /\ lpc = (IF variant = "encoder" THEN "demo" ELSE "consume")

NonBlank(line) == SelectSeq(line, LAMBDA t : t.kind # "empty")

AllNumeric(line) == \A i \in 1 .. Len(line) : line[i].kind \in {"num", "empty"}

NoNumeric(line) == \A i \in 1 .. Len(line) : line[i].kind # "num"

InRange1000_2000(v) == IF v < 1000 THEN 1000 ELSE IF v > 2000 THEN 2000 ELSE v

\* C8: a handled line carrying k integer values (1 <= k <= the sketch's limit)
\* leaves channel i at the i-th value clamped to [1000,2000] for i < k and every
\* channel from k on as it was.
C8_CommandSetsChannels ==
  LET vals == NonBlank(hist.line)
      k    == Len(vals)
  IN  (CmdHandled /\ AllNumeric(hist.line) /\ k >= 1 /\ k <= Limit) =>
        \A i \in 0 .. CHANNELS - 1 :
          ch[i] = IF i < k THEN InRange1000_2000(vals[i + 1].val) ELSE hist.chPrev[i]

C8_Scenario2Handled ==
  /\ CmdHandled
  /\ hist.line = <<Num(500), Num(2500), Num(1700)>>
  /\ ch[0] = 1000 /\ ch[1] = 2000 /\ ch[2] = 1700 /\ ch[3] = NEUTRAL

\* C9 as stated: a handled non-empty line without a numeric field is answered
\* with the error acknowledgment and leaves the store as it was.
C9_NoNumbersRejected ==
  (CmdHandled /\ ~IsEmptyLine(hist.line) /\ NoNumeric(hist.line)) =>
    (ack = AckERR /\ ch = hist.chPrev)

\* What the sketches do with such a line: fields of other text count as values
\* and are stored as 1000; only a line of nothing but commas changes nothing, and
\* only the encoder sketch answers it with the error line.
C9_CodeNoNumbers ==
  (CmdHandled /\ ~IsEmptyLine(hist.line) /\ NoNumeric(hist.line)) =>
    LET k == Min(Len(NonBlank(hist.line)), Limit)
    IN  /\ \A i \in 0 .. CHANNELS - 1 :
             ch[i] = IF i < k THEN 1000 ELSE hist.chPrev[i]
        /\ ack = IF k > 0 THEN (IF variant = "encoder" THEN AckOK(k) ELSE AckPC(k))
                 ELSE IF variant = "encoder" THEN AckERR ELSE NoAck

C9_JunkLineStored ==
  /\ CmdHandled /\ hist.line = <<Junk>>
  /\ ch[0] = 1000 /\ ack.kind # "ERR"

-----------------------------------------------------------------------------
(* SpecFilt: the bridge's smoothing of CH7/CH8, from any filtered value           *)

\* Raw inputs met by a filtered value f: the ends and the middle of the range, and
\* values at and around the distance 2^SMOOTH_SHIFT where the shift yields 0
RawsFor(f) ==
  ({1000, NEUTRAL, 2000} \cup {f - 9, f - 8, f - 1, f, f + 1, f + 7, f + 8})
    \cap (1000 .. 2000)

InitFilt ==
  /\ variant = "bridge"
  /\ ch = InitStore
  /\ InitOther
  /\ \E f \in 1000 .. 2000 :
       /\ filtCh7 = f /\ filtCh8 = f
       /\ hist = [InitHist EXCEPT !.mode = "filt", !.from = f]

NextFilt ==
  \/ \E r \in RawsFor(filtCh7) : BrTakeFrame(r, r)
  \/ BrSmooth
  \/ BrOutNoInterrupts
  \/ BrWrite7
  \/ BrWrite8
  \/ BrOutInterrupts

SpecFilt == InitFilt /\ [][NextFilt]_vars

\* The raw input has been 2000 in every update since the filtered value was 1500
HeldFrom1500 == hist.mode = "filt" /\ hist.from = NEUTRAL /\ hist.run > 0

FirstUpdate == (HeldFrom1500 /\ hist.run = 1) => filtCh7 = 1562

NonDecreasing == HeldFrom1500 => hist.prev <= filtCh7

NoOvershoot == HeldFrom1500 => filtCh7 <= 2000

Between ==
  hist.upd =>
    \/ hist.prev <= filtCh7 /\ filtCh7 <= hist.raw
    \/ hist.raw <= filtCh7 /\ filtCh7 <= hist.prev

\* Another update with the raw input 2000 leaves the filtered value as it is
Settled == smoothUpdate(filtCh7, 2000) = filtCh7

\* C10 as stated: first update 1562, non-decreasing, never above 2000, between the
\* previous and the raw value, and the value the filter settles at is 2000.
C10_ConvergesTo2000 ==
  /\ FirstUpdate /\ NonDecreasing /\ NoOvershoot /\ Between
  /\ (HeldFrom1500 /\ Settled) => filtCh7 = 2000

\* C10 (amended): from 1500 with the raw input held at 2000 the first update
\* yields 1562, the value never decreases and never exceeds 1993, where it settles
\* (a distance below 2^SMOOTH_SHIFT shifts to 0); every update lies between the
\* previous and the raw value, and one that changes nothing has the raw value at
\* most 2^SMOOTH_SHIFT - 1 above the filtered value and never below it.
C10_SettlesBelowRaw ==
  /\ FirstUpdate /\ NonDecreasing /\ NoOvershoot /\ Between
  /\ HeldFrom1500 => filtCh7 <= 1993
  /\ (HeldFrom1500 /\ (Settled \/ hist.run = MaxRun)) => filtCh7 = 1993
  /\ (hist.upd /\ filtCh7 = hist.prev) =>
       (hist.raw - filtCh7 >= 0 /\ hist.raw - filtCh7 < 2 ^ SMOOTH_SHIFT)

C10_SettledAt1993 ==
  /\ HeldFrom1500 /\ hist.run = MaxRun /\ Settled
  /\ filtCh7 = 1993 /\ ch[6] = 1993 /\ lpc = "idle"

-----------------------------------------------------------------------------
(* SpecStore: every writer of the channel store, any number of times: command    *)
(* lines and demo steps in the encoder sketch, command lines and taken frames in *)
(* the bridge sketch                                                             *)

StoreLines == EncLines \cup { <<Junk, Num(3000)>> }

\* CH7 of the taken frames; CH8 is its mirror image about the middle
StoreRaws == {1000, 2000}

InitStoreSpec ==
  /\ variant \in {"encoder", "bridge"}
  /\ InitProgram
  /\ hist = [InitHist EXCEPT !.mode = "store"]

NextStore ==
  \/ \E line \in StoreLines : EncReadLine(line)
  \/ EncNoInterrupts
  \/ EncWrite
  \/ EncInterrupts
  \/ EncDemoStep
  \/ EncDemoSkip
  \/ EncDemoNoInterrupts
  \/ EncDemoWrite4
  \/ EncDemoWrite5
  \/ EncDemoInterrupts
  \/ \E line \in StoreLines : BrReadLine(line)
  \/ BrNoInterrupts
  \/ BrWrite
  \/ BrInterrupts
  \/ \E r \in StoreRaws : BrTakeFrame(r, 3000 - r)
  \/ BrSmooth
  \/ BrOutNoInterrupts
  \/ BrWrite7
  \/ BrWrite8
  \/ BrOutInterrupts

SpecStore == InitStoreSpec /\ [][NextStore]_vars

\* C7: every element of the channel store is in [1000,2000] in every reachable
\* state, whatever lines, demo steps and frames came before.
C7_StoreInRange == \A i \in 0 .. CHANNELS - 1 : ch[i] >= 1000 /\ ch[i] <= 2000

C7_BridgeStoreWritten ==
  /\ variant = "bridge" /\ hist.mode = "store"
  /\ ch[0] = 1000 /\ ch[1] = 2000 /\ ch[6] = 1993 /\ ch[7] = 1000

C7_DemoTurnedAround ==
  /\ variant = "encoder" /\ hist.mode = "store"
  /\ ch[4] = 1905 /\ ch[5] = 1095 /\ ch[0] = 1000

-----------------------------------------------------------------------------
(* SpecGap: the encoder sketch's timer handler running for ever while command    *)
(* lines rewrite the store                                                       *)

GapLines == { <<Num(1000)>>, <<Num(2000), Num(2000), Num(2000)>>, Rep(Num(2000), CHANNELS) }

InitGap ==
  /\ variant = "encoder"
  /\ InitProgram
  /\ hist = [InitHist EXCEPT !.mode = "gap"]

GapLoop ==
  \/ \E line \in GapLines : EncReadLine(line)
  \/ EncNoInterrupts
  \/ EncWrite
  \/ EncInterrupts
  \/ EncDemoSkip

NextGap == TIMER1_COMPA_vect \/ GapLoop

SpecGap == InitGap /\ [][NextGap]_vars

\* FRAME_LEN - N*PULSE_LEN - sum of the clamped values of store c
GapOf(c) ==
  FRAME_LEN - CHANNELS * PULSE_LEN
    - SumTo([i \in 0 .. CHANNELS - 1 |-> InRange1000_2000(c[i])], CHANNELS)

GapFixedAtFrameStart ==
  /\ (hist.mode = "gap" /\ hist.started) => rest = GapOf(hist.chAtStart)
  /\ (hist.mode = "gap" /\ hist.done) => hist.lastGap = GapOf(hist.lastCh)

\* C11: only the firing that starts a pulse with channel index 0 writes rest, as
\* the value computed from the store as it is at that firing; whatever is written
\* to the store afterwards, rest keeps that value and the sync gap that ends the
\* frame is that value.
C11_RestOncePerFrame ==
  /\ []GapFixedAtFrameStart
  /\ [][rest' # rest => (~pulse /\ chan = 0 /\ rest' = GapOf(ch))]_vars

C11_UpdatedDuringFrame ==
  /\ hist.mode = "gap" /\ hist.done /\ ~hist.lastClean
  /\ hist.lastCh = InitStore /\ hist.lastGap = 7300
  /\ ch[0] = 2000 /\ ch[7] = 2000 /\ hist.chAtStart = ch

\* The CPU goes on with loop(); the compare interrupt stays pending while
\* interrupts are off and is taken when they are on again
GapLoopRuns == EncNoInterrupts \/ EncWrite \/ EncInterrupts \/ EncDemoSkip

FairSpecGap == SpecGap /\ WF_vars(GapLoopRuns) /\ SF_vars(TIMER1_COMPA_vect)

\* The step is a timer firing
Fires == hist'.mode = "gap" /\ hist'.fired # hist.fired

CycleShape ==
  hist.mode = "gap" =>
    /\ pin = (IF pulse THEN LOW ELSE HIGH)
    /\ chan >= 0 /\ chan <= CHANNELS
    /\ (hist.started /\ hist.fired = 1) => (pulse /\ chan = 0)
    /\ ~hist.started => (~pulse /\ chan = 0)
    /\ hist.done => hist.lastFired = 2 * (CHANNELS + 1)

\* C17: the first firing enters the pulse phase with index 0; every firing toggles
\* the phase and nothing else does; the line is low exactly in the pulse phase;
\* the index stays within 0..N; a new frame begins every 2(N+1) firings, whatever
\* is written to the store in between, and so again and again for ever.
C17_PerpetualCycle ==
  /\ []CycleShape
  /\ [][IF Fires THEN pulse' = ~pulse ELSE UNCHANGED <<pulse, chan, pin>>]_vars
  /\ []<><<Fires /\ ~pulse /\ chan = 0>>_vars

C17_FrameWithUpdateDone ==
  /\ hist.mode = "gap" /\ hist.done /\ ~hist.lastClean
  /\ hist.lastFired = 18 /\ hist.fired = 1 /\ pulse /\ pin = LOW

-----------------------------------------------------------------------------
(* SpecEdges: the edge handler alone, fed intervals at and around its thresholds *)

EdgeDts(k) ==
  {0, 899, 2101, 3000, 3001}
    \cup {ScenarioDt(k)}
    \cup (IF k = 0 THEN {900, 2100} ELSE {})

InitEdges ==
  /\ variant = "decoder"
  /\ InitProgram
  /\ hist = [InitHist EXCEPT !.mode = "edges"]

NextEdges == \E dt \in EdgeDts(isrCount) : ppmEdgeISR(dt)

SpecEdges == InitEdges /\ [][NextEdges]_vars

\* The captured frame is the intervals of run, clamped
CapturedIs(run) ==
  /\ frameReady
  /\ frameCount = Len(run)
  /\ \A i \in 1 .. Len(run) : frameChannels[i - 1] = InRange1000_2000(run[i])

\* The accumulation is the intervals of the frame in progress, or empty and not started
AccumulationIsRun ==
  IF hist.got = NoLog
    THEN isrCount = 0 /\ ~frameStarted
    ELSE /\ frameStarted
         /\ isrCount = Len(hist.got)
         /\ \A i \in 1 .. Len(hist.got) : isrChannels[i - 1] = InRange1000_2000(hist.got[i])

PublishedIsClosedRun ==
  IF hist.closedRun = NoLog THEN ~frameReady ELSE CapturedIs(hist.closedRun)

\* The interval dt, met with the accumulation as it is, is not a sync and is
\* outside [900,2100], or comes before a frame has started, or comes with 16
\* channels accumulated
RejectedAsStated(dt) ==
  /\ ~(dt > 3000)
  /\ (dt < 900 \/ dt > 2100 \/ ~frameStarted \/ isrCount >= 16)

\* The step handles an interval
Handles == hist'.mode = "edges" /\ hist' # hist

\* C12 as stated: the published frame is the run of valid intervals between two
\* syncs, and every interval rejected as stated empties the accumulation and
\* clears frame_started.
C12_RejectedEmpties ==
  /\ [](hist.mode = "edges" => PublishedIsClosedRun)
  /\ [][(Handles /\ RejectedAsStated(hist'.lastDt)) =>
           (isrCount' = 0 /\ ~frameStarted')]_vars

\* C12 (amended): the same for every interval other than 0; an interval of 0 is
\* a duplicate edge, it is not rejected and the frame in progress goes on.
C12_NonZeroRejectedEmpties ==
  /\ [](hist.mode = "edges" => (PublishedIsClosedRun /\ AccumulationIsRun))
  /\ [][(Handles /\ RejectedAsStated(hist'.lastDt) /\ hist'.lastDt # 0) =>
           (isrCount' = 0 /\ ~frameStarted' /\ hist'.got = NoLog
              /\ UNCHANGED <<frameChannels, frameCount, frameReady>>)]_vars

C12_PublishedAfterDrop ==
  /\ hist.mode = "edges" /\ hist.dropped
  /\ hist.closedRun = <<900, 1200>>
  /\ frameReady /\ frameCount = 2 /\ frameChannels[0] = 1000 /\ frameChannels[1] = 1200

\* C13: in whatever state the decoder is, a sync, then k intervals in [900,2100]
\* (1 <= k <= 16), then one more sync leave the captured frame ready with count k
\* and those k intervals clamped.
C13_Resynchronizes ==
  (hist.mode = "edges" /\ hist.justClosed) =>
    /\ Len(hist.closedRun) >= 1 /\ Len(hist.closedRun) <= 16
    /\ CapturedIs(hist.closedRun)

C13_FullFrameAfterDrop ==
  /\ hist.mode = "edges" /\ hist.justClosed /\ hist.dropped
  /\ Len(hist.closedRun) = 16 /\ frameReady /\ frameCount = 16

DecoderBounds ==
  /\ isrCount >= 0 /\ isrCount <= MAX_CHANNELS
  /\ DOMAIN isrChannels = 0 .. MAX_CHANNELS - 1
  /\ DOMAIN frameChannels = 0 .. MAX_CHANNELS - 1
  /\ frameReady =>
       /\ frameCount >= 1 /\ frameCount <= MAX_CHANNELS
       /\ \A i \in 0 .. frameCount - 1 :
            frameChannels[i] >= 1000 /\ frameChannels[i] <= 2000

\* C19: for any sequence of intervals the accumulator count stays within 0..16
\* and the accumulator and the capture buffer are written below index 16 only; a
\* ready captured frame has a count within 1..16 and its channels in [1000,2000];
\* an interval of 0 changes nothing.
C19_DecoderBounds ==
  /\ [](hist.mode = "edges" => DecoderBounds)
  /\ [][isrChannels' # isrChannels =>
          /\ isrCount < MAX_CHANNELS
          /\ \A i \in 0 .. MAX_CHANNELS - 1 : i # isrCount => isrChannels'[i] = isrChannels[i]]_vars
  /\ [][frameChannels' # frameChannels =>
          /\ isrCount <= MAX_CHANNELS
          /\ \A i \in isrCount .. MAX_CHANNELS - 1 : frameChannels'[i] = frameChannels[i]]_vars
  /\ [][(Handles /\ hist'.lastDt = 0) => UNCHANGED decVars]_vars

C19_FullAccumulatorDuplicateEdge ==
  /\ hist.mode = "edges" /\ hist.lastDt = 0
  /\ isrCount = MAX_CHANNELS /\ frameStarted
  /\ frameReady /\ frameCount = MAX_CHANNELS /\ frameChannels[0] = 2000

-----------------------------------------------------------------------------
(* SpecBridge: the bridge sketch's loop with both its inputs, command lines and  *)
(* decoded frames of 2 or CHANNELS values                                        *)

BridgeLines == { <<Num(500), Num(2500), Num(1700)>>, <<Junk>> }

BridgeDts(k) ==
  (IF k \in {2, CHANNELS} THEN {3500} ELSE {})
    \cup (IF k >= CHANNELS THEN {}
          ELSE IF k \in {6, 7} THEN {1000, 2000} ELSE {NEUTRAL})

InitBridge ==
  /\ variant = "bridge"
  /\ InitProgram
  /\ hist = InitHist

NextBridge ==
  \/ \E dt \in BridgeDts(isrCount) \cup {3500} :
       hist.nEdge < MaxTakeEdges /\ ppmEdgeISR(dt)
  \/ \E line \in BridgeLines : BrReadLine(line)
  \/ BrNoInterrupts
  \/ BrWrite
  \/ BrInterrupts
  \/ BrTakeNoInterrupts
  \/ BrTakeCheck
  \/ BrTakeCopy
  \/ BrTakeInterrupts
  \/ BrSmooth
  \/ BrOutNoInterrupts
  \/ BrWrite7
  \/ BrWrite8
  \/ BrOutInterrupts

SpecBridge == InitBridge /\ [][NextBridge]_vars

\* The loop is handling a command line / a taken frame of at least 8 channels
InCommand  == lpc \in {"idle", "cli", "write"}
InFrameOut == lpc \in {"smooth", "cli7", "w7", "w8", "sei7"} /\ ready /\ count >= 8

\* C16: channels 0..5 (and the values kept for them) change only while a command
\* line is handled, channels 6..7 and the two filter states change only while a
\* taken frame of at least 8 channels is handled; a command never touches the
\* latter, a frame never the former, a shorter frame nothing.
C16_BridgeFrameConditions ==
  /\ [][((\E i \in 0 .. PC_CHANNELS - 1 : ch'[i] # ch[i]) \/ pcVals' # pcVals)
          => (InCommand /\ UNCHANGED <<filtCh7, filtCh8>>
                /\ ch'[6] = ch[6] /\ ch'[7] = ch[7])]_vars
  /\ [][(ch'[6] # ch[6] \/ ch'[7] # ch[7] \/ filtCh7' # filtCh7 \/ filtCh8' # filtCh8)
          => (InFrameOut /\ pcVals' = pcVals
                /\ \A i \in 0 .. PC_CHANNELS - 1 : ch'[i] = ch[i])]_vars
  /\ [](InCommand => (ch[6] = filtCh7 /\ ch[7] = filtCh8))

C16_ShortFrameAfterUpdates ==
  /\ variant = "bridge" /\ lpc = "csei" /\ ready /\ count = 2
  /\ ch[0] = 1000 /\ ch[1] = 2000 /\ ch[5] = NEUTRAL
  /\ ch[6] = 1437 /\ filtCh7 = 1437 /\ ch[7] = 1562 /\ filtCh8 = 1562

-----------------------------------------------------------------------------
(* SpecFloor: the sync-gap computation of the timer handler, for the sketch      *)
(* built with any channel count up to 16 and any store of that many values       *)

\* Stores of nch values: the first k at hi, the others at lo
FloorStores(nch) ==
  { [i \in 0 .. nch - 1 |-> IF i < k THEN p[1] ELSE p[2]] :
      k \in 0 .. nch, p \in { <<2000, 1000>>, <<2000, 1006>>, <<NEUTRAL, 1000>> } }

InitFloor ==
  /\ variant = "encoder"
  /\ \E nch \in 1 .. MAX_CHANNELS : ch \in FloorStores(nch)
  /\ InitRest
  /\ hist = [InitHist EXCEPT !.mode = "floor"]

\* if (chan == 0) { sum = ...; rest = FRAME_LEN - CHANNELS * PULSE_LEN - sum; floor }
FloorFiring ==
  /\ hist.mode = "floor"
  /\ rest' = SyncGapFor(ch, Cardinality(DOMAIN ch))
  /\ hist' = [hist EXCEPT !.done = TRUE, !.chAtStart = ch]
  /\ UNCHANGED <<variant, storeVars, pulse, chan, OCR1A, pin, decVars, loopVars>>

\* The application rewrites the store between two frames
FloorStoreUpdate ==
  /\ hist.mode = "floor"
  /\ ch' \in FloorStores(Cardinality(DOMAIN ch))
  /\ UNCHANGED <<variant, encVars, decVars, loopVars, hist>>

NextFloor == FloorFiring \/ FloorStoreUpdate

SpecFloor == InitFloor /\ [][NextFloor]_vars

\* FRAME_LEN - N*PULSE_LEN - sum of the clamped values, as an integer
TrueGap(c) ==
  LET nch == Cardinality(DOMAIN c)
  IN  FRAME_LEN - nch * PULSE_LEN
        - SumTo([i \in 0 .. nch - 1 |-> InRange1000_2000(c[i])], nch)

C18_CodeWrapsNegative ==
  (hist.mode = "floor" /\ hist.done) =>
    LET g == TrueGap(hist.chAtStart)
    IN  /\ rest = IF g < 0 THEN g + U16 ELSE IF g < 1000 THEN 1000 ELSE g
        /\ rest >= 1000
        /\ Cardinality(DOMAIN hist.chAtStart) = CHANNELS => (g >= 3300 /\ rest = g)

C18_NegativeGapWrapped ==
  /\ hist.mode = "floor" /\ hist.done
  /\ hist.chAtStart = [i \in 0 .. MAX_CHANNELS - 1 |-> 2000]
  /\ rest = 49636

=============================================================================
